---- MODULE Spec2Model ----
(***************************************************************************)
(* Pair-year event summaries (Code_Sample.py): the base builder, the batch *)
(* loader, the lag/lead/LAST cache, the causal-ordering evaluator, the     *)
(* event classification and the row aggregation of run_entity.             *)
(*                                                                         *)
(* Tables are sequences of records in row order.  A missing value (NaN) is *)
(* the number NaN, outside every value range; comparisons with it are      *)
(* false, as in numpy.  A float share is the exact fraction [n, d].        *)
(***************************************************************************)
EXTENDS Integers, Sequences, FiniteSets, TLC

VARIABLES
  pc,          \* position of the program
  interlock_file,   \* boardex_citeline_originator_sample.csv: the pair-year indicator rows
  cro_file,       \* cro_bname_boardex_citeline.dta: the BoardName whitelist
  citeline_file,    \* citeline_originator_firmyr.csv: the firm-year rows
  groups,      \* the detected groups of the entity
  BATCH,       \* run_entity's batch size
  prev_run,    \* the groups, batch size and row lists of an earlier run_entity call
  base_df,     \* build_base's table
  masks,       \* run_entity's base-level arrays (totals, YoY masks, history masks)
  s,           \* run_entity's batch offset
  tmp,         \* the batch table of _attach_entity_batch
  cache,       \* the batch cache of _build_shift_last_cache
  gi,          \* position of the group loop inside the batch
  arr,         \* the arrays of the current group (prepare_arrays_fast)
  calls,       \* the compute_bundle_counts calls of the last group iteration
  rows,        \* the six row lists of run_entity
  files,       \* the report files written so far
  series,      \* the arguments of _compute_causal_flags_for_pairs
  flags        \* its result: ok1, ok2

vars == <<pc, interlock_file, cro_file, citeline_file, groups, BATCH, prev_run, base_df, masks, s, tmp, cache, gi,
          arr, calls, rows, files, series, flags>>

\* ------------------------------------------------------------------ bounds
MaxRows == 3        \* SpecBase: rows of the interlock file
MaxYear == 3        \* SpecBase: years 1..MaxYear
NYears == 5         \* Spec: years of the pair (1, 2) and of the firm-year file
MaxStart == 3       \* Spec: a counter steps up in a year 1..MaxStart, or never
MaxLen == 3         \* SpecCausal: rows of the table
NaN == -9           \* the missing value

Years == 1..MaxYear
Indicator == {NaN, 0, 1}
Whitelists == {{1, 2}, {1, 2, 3}}

\* ------------------------------------------------------------------ numpy / pandas primitives
IsNaN(x) == x = NaN
Gt(x, y) == x # NaN /\ y # NaN /\ x > y
Eq(x, y) == x # NaN /\ y # NaN /\ x = y
fillna(x, v) == IF x = NaN THEN v ELSE x
nan_to_num(x, v) == IF x = NaN THEN v ELSE x

Max2(a, b) == IF a >= b THEN a ELSE b
Range(q) == {q[i] : i \in DOMAIN q}

RECURSIVE SumBool(_)
SumBool(m) == IF m = <<>> THEN 0
              ELSE (IF m[Len(m)] THEN 1 ELSE 0) + SumBool(SubSeq(m, 1, Len(m) - 1))

\* the sequence <<f[1], ..., f[n]>>
RECURSIVE Tup(_, _)
Tup(f, n) == IF n = 0 THEN <<>> ELSE Append(Tup(f, n - 1), f[n])

\* ------------------------------------------------------------------ build_base
InterlockRows ==
  [BoardName1 : {1}, BoardName2 : {2, 3}, year : Years,
   interlock_indirect : Indicator, interlock_direct : Indicator]

RECURSIVE SeqsUpTo(_, _)
SeqsUpTo(S, n) == IF n = 0 THEN {<<>>}
                  ELSE LET shorter == SeqsUpTo(S, n - 1)
                       IN  shorter \cup {Append(q, x) : q \in {t \in shorter : Len(t) = n - 1}, x \in S}

PairKeyLeq(a, b) ==
  \/ a.BoardName1 < b.BoardName1
  \/ a.BoardName1 = b.BoardName1 /\ a.BoardName2 < b.BoardName2
  \/ a.BoardName1 = b.BoardName1 /\ a.BoardName2 = b.BoardName2 /\ a.year <= b.year

\* sort_values(['BoardName1','BoardName2','year'], kind='mergesort'): stable
RECURSIVE sort_values(_)
sort_values(t) ==
  IF t = <<>> THEN <<>>
  ELSE LET r    == t[Len(t)]
           done == sort_values(SubSeq(t, 1, Len(t) - 1))
           Le(x) == PairKeyLeq(x, r)
           Gr(x) == ~PairKeyLeq(x, r)
       IN  SelectSeq(done, Le) \o <<r>> \o SelectSeq(done, Gr)

SamePair(a, b) == a.BoardName1 = b.BoardName1 /\ a.BoardName2 = b.BoardName2

\* the row before row i in row i's (BoardName1, BoardName2) group, 0 when there is none
PrevInPair(t, i) ==
  LET before == {j \in 1..(i - 1) : SamePair(t[j], t[i])}
  IN  IF before = {} THEN 0 ELSE CHOOSE j \in before : \A k \in before : k <= j

RECURSIVE CumSumInPair(_, _, _)
CumSumInPair(t, i, col) ==
  LET p == PrevInPair(t, i)
  IN  t[i][col] + (IF p = 0 THEN 0 ELSE CumSumInPair(t, p, col))

\* gbp[col].shift(1).fillna(0)
ShiftInPair(t, i, col) ==
  LET p == PrevInPair(t, i) IN IF p = 0 THEN 0 ELSE t[p][col]

filter_valid(interlock, valid) ==
  LET Keep(r) == r.BoardName1 \in valid /\ r.BoardName2 \in valid
  IN  SelectSeq(interlock, Keep)

fill_indicators(t) ==
  [i \in DOMAIN t |->
     [t[i] EXCEPT !.interlock_indirect = fillna(@, 0),
                  !.interlock_direct   = fillna(@, 0)]]

mask_indirect_yoy_at(df, i) ==
  df[i].interlock_indirect = 1 /\ ShiftInPair(df, i, "interlock_indirect") = 0

mask_direct_yoy_at(df, i) ==
  df[i].interlock_direct = 1 /\ ShiftInPair(df, i, "interlock_direct") = 0

mask_never_indirect_only(df, i) ==
  CumSumInPair(df, i, "interlock_indirect") = 0

mask_never_at(df, i) ==
  CumSumInPair(df, i, "interlock_indirect") = 0 /\ CumSumInPair(df, i, "interlock_direct") = 0

\* the indicator itself, in every year it is 1
mask_indirect_level(df, i) ==
  df[i].interlock_indirect = 1

\* df['mask_indirect'] = df['mask_indirect_yoy']
mask_indirect_at(df, i) ==
  mask_indirect_yoy_at(df, i)

\* df['mask_direct'] = df['mask_direct_yoy']
mask_direct_at(df, i) ==
  mask_direct_yoy_at(df, i)

\* df['mask_no_interlock'] = df['mask_never']
mask_no_interlock_at(df, i) ==
  mask_never_at(df, i)

cum_interlock_direct_prev_at(df, i) ==
  LET p == PrevInPair(df, i)
  IN  IF p = 0 THEN 0 ELSE CumSumInPair(df, p, "interlock_direct")

build_base(interlock, valid) ==
  LET df == fill_indicators(sort_values(filter_valid(interlock, valid)))
  IN  [i \in DOMAIN df |->
         [BoardName1 |-> df[i].BoardName1,
          BoardName2 |-> df[i].BoardName2,
          year       |-> df[i].year,
          interlock_indirect |-> df[i].interlock_indirect,
          interlock_direct   |-> df[i].interlock_direct,
          cum_interlock_indirect |-> CumSumInPair(df, i, "interlock_indirect"),
          cum_interlock_direct   |-> CumSumInPair(df, i, "interlock_direct"),
          mask_indirect_yoy |-> mask_indirect_yoy_at(df, i),
          mask_direct_yoy   |-> mask_direct_yoy_at(df, i),
          mask_never        |-> mask_never_at(df, i),
          mask_indirect     |-> mask_indirect_at(df, i),
          mask_direct       |-> mask_direct_at(df, i),
          mask_no_interlock |-> mask_no_interlock_at(df, i),
          cum_interlock_direct_prev |-> cum_interlock_direct_prev_at(df, i)]]

Column(t, col) == [i \in DOMAIN t |-> t[i][col]]
AndMask(a, b) == [i \in DOMAIN a |-> a[i] /\ b[i]]

\* ------------------------------------------------------------------ run_entity: base-level arrays
hist_no_prior(df) == [i \in DOMAIN df |-> df[i].cum_interlock_direct_prev = 0]
hist_prior_geq(df) == [i \in DOMAIN df |-> df[i].cum_interlock_direct_prev >= 0]
hist_prior(df)    == [i \in DOMAIN df |-> df[i].cum_interlock_direct_prev > 0]

run_entity_masks(df) ==
  [totals_indirect   |-> SumBool(Column(df, "mask_indirect")),
   totals_direct     |-> SumBool(Column(df, "mask_direct")),
   totals_none       |-> SumBool(Column(df, "mask_no_interlock")),
   mask_indirect_yoy |-> Column(df, "mask_indirect_yoy"),
   mask_direct_yoy   |-> Column(df, "mask_direct_yoy"),
   mask_never        |-> Column(df, "mask_never"),
   hist_no_prior     |-> hist_no_prior(df),
   hist_prior        |-> hist_prior(df),
   indirect_no_prior |-> AndMask(Column(df, "mask_indirect_yoy"), hist_no_prior(df)),
   indirect_prior    |-> AndMask(Column(df, "mask_indirect_yoy"), hist_prior(df)),
   direct_no_prior   |-> AndMask(Column(df, "mask_direct_yoy"), hist_no_prior(df)),
   direct_prior      |-> AndMask(Column(df, "mask_direct_yoy"), hist_prior(df))]

\* ------------------------------------------------------------------ _attach_entity_batch
\* firm[firm['BoardName'].isin(valid)]
filter_firm(firm, whitelist) ==
  LET Keep(r) == r.BoardName \in whitelist
  IN  SelectSeq(firm, Keep)

\* a mutant: an unmatched firm-year filled with zeros
Zeros(batch) == [g \in Range(batch) |-> 0]

NaNs(batch) == [g \in Range(batch) |-> NaN]

\* the rows of `firm` (in its order) whose (BoardName, year) is (name, year)
MatchesOf(firm, name, year) ==
  LET Hit(r) == r.BoardName = name /\ r.year = year
  IN  SelectSeq(firm, Hit)

\* keep_base.merge(firm1, on=['BoardName1','year'], how='left', sort=False): one output
\* row per matching firm row, one row of missing values when there is none
RECURSIVE merge_left_1(_, _, _)
merge_left_1(left, firm, batch) ==
  IF left = <<>> THEN <<>>
  ELSE LET r  == left[Len(left)]
           m  == MatchesOf(firm, r.BoardName1, r.year)
           out == IF m = <<>>
                  THEN <<[base |-> r, added_1 |-> NaNs(batch), launch_1 |-> NaNs(batch)]>>
                  ELSE [k \in DOMAIN m |->
                          [base |-> r,
                           added_1  |-> [g \in Range(batch) |-> m[k].added[g]],
                           launch_1 |-> [g \in Range(batch) |-> m[k].launch[g]]]]
       IN  merge_left_1(SubSeq(left, 1, Len(left) - 1), firm, batch) \o out

\* .merge(firm2, on=['BoardName2','year'], how='left', sort=False)
RECURSIVE merge_left_2(_, _, _)
merge_left_2(left, firm, batch) ==
  IF left = <<>> THEN <<>>
  ELSE LET r  == left[Len(left)]
           m  == MatchesOf(firm, r.base.BoardName2, r.base.year)
           Row(a2, l2) ==
             [BoardName1 |-> r.base.BoardName1,
              BoardName2 |-> r.base.BoardName2,
              year       |-> r.base.year,
              mask_indirect     |-> r.base.mask_indirect,
              mask_direct       |-> r.base.mask_direct,
              mask_no_interlock |-> r.base.mask_no_interlock,
              mask_indirect_yoy |-> r.base.mask_indirect_yoy,
              mask_direct_yoy   |-> r.base.mask_direct_yoy,
              mask_never        |-> r.base.mask_never,
              cum_interlock_direct_prev |-> r.base.cum_interlock_direct_prev,
              added_1 |-> r.added_1, launch_1 |-> r.launch_1,
              added_2 |-> a2, launch_2 |-> l2]
           out == IF m = <<>>
                  THEN <<Row(NaNs(batch), NaNs(batch))>>
                  ELSE [k \in DOMAIN m |->
                          Row([g \in Range(batch) |-> m[k].added[g]],
                              [g \in Range(batch) |-> m[k].launch[g]])]
       IN  merge_left_2(SubSeq(left, 1, Len(left) - 1), firm, batch) \o out

\* None for an empty batch is never reached: run_entity slices non-empty batches
attach_entity_batch(base, firmyr, whitelist, batch) ==
  LET firm == filter_firm(firmyr, whitelist)
  IN  sort_values(merge_left_2(merge_left_1(base, firm, batch), firm, batch))

\* ------------------------------------------------------------------ _build_shift_last_cache
\* rows of t with the same value in column key as row i, before / after row i
SameKeyBefore(t, i, key) == {j \in 1..(i - 1) : t[j][key] = t[i][key]}
SameKeyAfter(t, i, key)  == {j \in (i + 1)..Len(t) : t[j][key] = t[i][key]}

\* the row that groupby(key)[...].shift(k) reads for row i (0: none, the value is missing)
ShiftRow(t, i, key, k) ==
  IF k > 0
  THEN LET c == {j \in SameKeyBefore(t, i, key) :
                   Cardinality({m \in SameKeyBefore(t, i, key) : m >= j}) = k}
       IN  IF c = {} THEN 0 ELSE CHOOSE j \in c : TRUE
  ELSE LET c == {j \in SameKeyAfter(t, i, key) :
                   Cardinality({m \in SameKeyAfter(t, i, key) : m <= j}) = 0 - k}
       IN  IF c = {} THEN 0 ELSE CHOOSE j \in c : TRUE

\* a mutant: the shifted value is read from the first group column of the batch
shift_first_column(t, i, key, col, k, g) ==
  LET j == ShiftRow(t, i, key, k)
      first == CHOOSE x \in DOMAIN t[i][col] : \A y \in DOMAIN t[i][col] : x <= y
  IN  IF j = 0 THEN NaN ELSE t[j][col][first]

shift(t, i, key, col, k, g) ==
  LET j == ShiftRow(t, i, key, k) IN IF j = 0 THEN NaN ELSE t[j][col][g]

\* gp[col].transform('last'): the last non-missing value of the pair's rows
transform_last(t, i, col, g) ==
  LET seen == {j \in DOMAIN t : SamePair(t[j], t[i]) /\ t[j][col][g] # NaN}
  IN  IF seen = {} THEN NaN
      ELSE t[CHOOSE j \in seen : \A m \in seen : m <= j][col][g]

build_shift_last_cache(t, batch) ==
  [i \in DOMAIN t |->
     [cur_o1 |-> t[i].added_1, cur_o2 |-> t[i].added_2,
      cur_l1 |-> t[i].launch_1, cur_l2 |-> t[i].launch_2,
      L1_o1 |-> [g \in Range(batch) |-> shift(t, i, "BoardName1", "added_1", 1, g)],
      L1_o2 |-> [g \in Range(batch) |-> shift(t, i, "BoardName2", "added_2", 1, g)],
      F1_o1 |-> [g \in Range(batch) |-> shift(t, i, "BoardName1", "added_1", -1, g)],
      F2_o1 |-> [g \in Range(batch) |-> shift(t, i, "BoardName1", "added_1", -2, g)],
      F3_o1 |-> [g \in Range(batch) |-> shift(t, i, "BoardName1", "added_1", -3, g)],
      F1_o2 |-> [g \in Range(batch) |-> shift(t, i, "BoardName2", "added_2", -1, g)],
      F2_o2 |-> [g \in Range(batch) |-> shift(t, i, "BoardName2", "added_2", -2, g)],
      F3_o2 |-> [g \in Range(batch) |-> shift(t, i, "BoardName2", "added_2", -3, g)],
      L1_l1 |-> [g \in Range(batch) |-> shift(t, i, "BoardName1", "launch_1", 1, g)],
      L1_l2 |-> [g \in Range(batch) |-> shift(t, i, "BoardName2", "launch_2", 1, g)],
      LAST_o1 |-> [g \in Range(batch) |-> transform_last(t, i, "added_1", g)],
      LAST_o2 |-> [g \in Range(batch) |-> transform_last(t, i, "added_2", g)],
      LAST_l1 |-> [g \in Range(batch) |-> transform_last(t, i, "launch_1", g)],
      LAST_l2 |-> [g \in Range(batch) |-> transform_last(t, i, "launch_2", g)]]]

\* ------------------------------------------------------------------ causal ordering
\* the index (from 0) of the first strictly positive increment of v, NaN when there is none
first_increment_index_np(v) ==
  IF Len(v) = 0 THEN NaN
  ELSE LET d == [i \in DOMAIN v |->
                   IF i = 1 THEN (IF v[1] = NaN THEN 0 ELSE 0)
                   ELSE IF v[i] = NaN \/ v[i - 1] = NaN THEN NaN ELSE v[i] - v[i - 1]]
           idx == {i \in DOMAIN v : Gt(d[i], 0)}
       IN  IF idx = {} THEN NaN ELSE (CHOOSE i \in idx : \A j \in idx : i <= j) - 1

\* np.maximum.accumulate
RECURSIVE maximum_accumulate(_)
maximum_accumulate(v) ==
  IF Len(v) <= 1 THEN v
  ELSE LET m == maximum_accumulate(SubSeq(v, 1, Len(v) - 1))
       IN  Append(m, Max2(m[Len(m)], v[Len(v)]))

\* a mutant: the raw sequence, not made monotone
no_accumulate(v) == v

monotone(v) == maximum_accumulate(v)

\* one side of one pair: o, l are the side's origination and launch values on the pair's rows
causal_ok(o, l) ==
  LET o_m == monotone([i \in DOMAIN o |-> nan_to_num(o[i], 0)])
      l_m == monotone([i \in DOMAIN l |-> nan_to_num(l[i], 0)])
      o_i == first_increment_index_np(o_m)
      l_i == first_increment_index_np(l_m)
  IN  o_i # NaN /\ l_i # NaN /\ l_i >= o_i

\* ascending sequence of a set of row numbers
SortedIdx(S) ==
  [k \in 1..Cardinality(S) |-> CHOOSE x \in S : Cardinality({y \in S : y < x}) = k - 1]

\* gbp.groups: (BoardName1, BoardName2) -> the rows of the pair
pair_groups(t) ==
  [p \in {<<t[i].BoardName1, t[i].BoardName2>> : i \in DOMAIN t} |->
     SortedIdx({i \in DOMAIN t : <<t[i].BoardName1, t[i].BoardName2>> = p})]

Take(a, idx) == [k \in DOMAIN idx |-> a[idx[k]]]

compute_causal_flags_for_pairs(groups_index, o1, l1, o2, l2) ==
  [ok1 |-> [i \in DOMAIN o1 |->
              \E p \in DOMAIN groups_index :
                /\ i \in Range(groups_index[p])
                /\ causal_ok(Take(o1, groups_index[p]), Take(l1, groups_index[p]))],
   ok2 |-> [i \in DOMAIN o1 |->
              \E p \in DOMAIN groups_index :
                /\ i \in Range(groups_index[p])
                /\ causal_ok(Take(o2, groups_index[p]), Take(l2, groups_index[p]))]]

\* ------------------------------------------------------------------ prepare_arrays_fast
\* the arrays of group g, one record per row of the batch table
prepare_arrays_fast(t, pair_indices, ch, g) ==
  LET ok == compute_causal_flags_for_pairs(
              pair_indices,
              [i \in DOMAIN ch |-> ch[i].cur_o1[g]], [i \in DOMAIN ch |-> ch[i].cur_l1[g]],
              [i \in DOMAIN ch |-> ch[i].cur_o2[g]], [i \in DOMAIN ch |-> ch[i].cur_l2[g]])
  IN  [i \in DOMAIN ch |->
         [cur_o1 |-> ch[i].cur_o1[g], cur_o2 |-> ch[i].cur_o2[g],
          L1_o1 |-> ch[i].L1_o1[g], L1_o2 |-> ch[i].L1_o2[g],
          F1_o1 |-> ch[i].F1_o1[g], F2_o1 |-> ch[i].F2_o1[g], F3_o1 |-> ch[i].F3_o1[g],
          F1_o2 |-> ch[i].F1_o2[g], F2_o2 |-> ch[i].F2_o2[g], F3_o2 |-> ch[i].F3_o2[g],
          L1_l1 |-> ch[i].L1_l1[g], L1_l2 |-> ch[i].L1_l2[g],
          LAST_o1 |-> ch[i].LAST_o1[g], LAST_o2 |-> ch[i].LAST_o2[g],
          LAST_l1 |-> ch[i].LAST_l1[g], LAST_l2 |-> ch[i].LAST_l2[g],
          mask_indirect |-> t[i].mask_indirect,
          mask_direct   |-> t[i].mask_direct,
          mask_none     |-> t[i].mask_no_interlock,
          mask_indirect_yoy |-> t[i].mask_indirect_yoy,
          mask_direct_yoy   |-> t[i].mask_direct_yoy,
          mask_never        |-> t[i].mask_never,
          ok1 |-> ok.ok1[i], ok2 |-> ok.ok2[i]]]

\* ------------------------------------------------------------------ compute_bundle_counts
\* the building blocks, on one row r of the arrays
mask_na_orig(r)   == ~IsNaN(r.L1_o1) /\ ~IsNaN(r.L1_o2)
mask_na_launch(r) == ~IsNaN(r.L1_l1) /\ ~IsNaN(r.L1_l2)
mask_na_future(r) == ~IsNaN(r.F3_o1) /\ ~IsNaN(r.F3_o2)
both_inexp_lag(r) == nan_to_num(r.L1_o1, -1) = 0 /\ nan_to_num(r.L1_o2, -1) = 0

starts1_t_to_t2(r) ==
  Gt(r.cur_o1, r.L1_o1) \/ Gt(r.F1_o1, r.L1_o1) \/ Gt(r.F2_o1, r.L1_o1) \/ Gt(r.F3_o1, r.L1_o1)
starts2_t_to_t2(r) ==
  Gt(r.cur_o2, r.L1_o2) \/ Gt(r.F1_o2, r.L1_o2) \/ Gt(r.F2_o2, r.L1_o2) \/ Gt(r.F3_o2, r.L1_o2)
starts1_by_last(r) == Gt(r.LAST_o1, r.L1_o1)
starts2_by_last(r) == Gt(r.LAST_o2, r.L1_o2)
launched1_by_last(r) == Gt(r.LAST_l1, r.L1_l1)
launched2_by_last(r) == Gt(r.LAST_l2, r.L1_l2)

either_starts_t_to_t2_and_launched(r) ==
  \/ starts1_t_to_t2(r) /\ launched1_by_last(r) /\ r.ok1
  \/ starts2_t_to_t2(r) /\ launched2_by_last(r) /\ r.ok2
either_starts_by_last(r) == starts1_by_last(r) \/ starts2_by_last(r)

\* a mutant: the symmetric base without the observed-launch gate
b_second_base_ungated(r) ==
  /\ mask_na_orig(r)
  /\ \/ Eq(r.L1_l1, 0) /\ Eq(r.L1_o2, 0)
     \/ Eq(r.L1_o1, 0) /\ Eq(r.L1_l2, 0)

b_second_base(r) ==
  /\ mask_na_orig(r) /\ mask_na_launch(r)
  /\ \/ Eq(r.L1_l1, 0) /\ Eq(r.L1_o2, 0)
     \/ Eq(r.L1_o1, 0) /\ Eq(r.L1_l2, 0)

\* a.*: b is the base mask's value on the row
a1(b, r) == b /\ mask_na_orig(r) /\
  ((Gt(r.L1_o1, 0) /\ Eq(r.L1_o2, 0)) \/ (Eq(r.L1_o1, 0) /\ Gt(r.L1_o2, 0)))
\* a mutant: the other side is required to be idle in the current year
a2_other_idle(b, r) == b /\ mask_na_orig(r) /\
  ((Gt(r.L1_o1, 0) /\ Eq(r.L1_o2, 0) /\ Eq(r.cur_o2, 0)) \/
   (Eq(r.L1_o1, 0) /\ Gt(r.L1_o2, 0) /\ Eq(r.cur_o1, 0)))

a2(b, r) == b /\ mask_na_orig(r) /\
  ((Gt(r.L1_o1, 0) /\ Eq(r.L1_o2, 0) /\ Gt(r.cur_o2, 0)) \/
   (Eq(r.L1_o1, 0) /\ Gt(r.L1_o2, 0) /\ Gt(r.cur_o1, 0)))
a3(b, r) == b /\ mask_na_orig(r) /\ mask_na_future(r) /\
  ((Gt(r.L1_o1, 0) /\ Eq(r.L1_o2, 0) /\ Gt(r.F3_o2, 0)) \/
   (Eq(r.L1_o1, 0) /\ Gt(r.L1_o2, 0) /\ Gt(r.F3_o1, 0)))
a4(b, r) == b /\ mask_na_orig(r) /\ mask_na_future(r) /\ mask_na_launch(r) /\
  ((Gt(r.L1_o1, 0) /\ Eq(r.L1_o2, 0) /\ starts2_t_to_t2(r) /\ launched2_by_last(r) /\ r.ok2) \/
   (Eq(r.L1_o1, 0) /\ Gt(r.L1_o2, 0) /\ starts1_t_to_t2(r) /\ launched1_by_last(r) /\ r.ok1))
a5(b, r) == b /\ mask_na_orig(r) /\ mask_na_future(r) /\
  ((Gt(r.L1_o1, 0) /\ Eq(r.L1_o2, 0) /\ starts2_by_last(r)) \/
   (Eq(r.L1_o1, 0) /\ Gt(r.L1_o2, 0) /\ starts1_by_last(r)))
a6(b, r) == b /\ mask_na_orig(r) /\ both_inexp_lag(r)
a7(b, r) == b /\ mask_na_orig(r) /\ both_inexp_lag(r) /\ (Gt(r.cur_o1, 0) \/ Gt(r.cur_o2, 0))
a8(b, r) == b /\ mask_na_orig(r) /\ mask_na_future(r) /\ both_inexp_lag(r) /\
  (Gt(r.F3_o1, 0) \/ Gt(r.F3_o2, 0))
a9(b, r) == b /\ mask_na_orig(r) /\ mask_na_future(r) /\ mask_na_launch(r) /\
  both_inexp_lag(r) /\ either_starts_t_to_t2_and_launched(r)
a10(b, r) == b /\ mask_na_orig(r) /\ mask_na_future(r) /\ both_inexp_lag(r) /\
  either_starts_by_last(r)

\* b1..b5
b1(b, r) == b /\ mask_na_orig(r) /\ mask_na_launch(r) /\
  ((Gt(r.L1_l1, 0) /\ Eq(r.L1_o2, 0)) \/ (Eq(r.L1_o1, 0) /\ Gt(r.L1_l2, 0)))
b2(b, r) == b /\ mask_na_orig(r) /\ mask_na_launch(r) /\
  ((Gt(r.L1_l1, 0) /\ Eq(r.L1_o2, 0) /\ Gt(r.cur_o2, 0)) \/
   (Eq(r.L1_o1, 0) /\ Gt(r.L1_l2, 0) /\ Gt(r.cur_o1, 0)))
b3(b, r) == b /\ mask_na_orig(r) /\ mask_na_launch(r) /\ mask_na_future(r) /\
  ((Gt(r.L1_l1, 0) /\ Eq(r.L1_o2, 0) /\ Gt(r.F3_o2, 0)) \/
   (Eq(r.L1_o1, 0) /\ Gt(r.L1_l2, 0) /\ Gt(r.F3_o1, 0)))
b4(b, r) == b /\ mask_na_orig(r) /\ mask_na_launch(r) /\ mask_na_future(r) /\
  ((Gt(r.L1_l1, 0) /\ Eq(r.L1_o2, 0) /\ starts2_t_to_t2(r) /\ launched2_by_last(r) /\ r.ok2) \/
   (Eq(r.L1_o1, 0) /\ Gt(r.L1_l2, 0) /\ starts1_t_to_t2(r) /\ launched1_by_last(r) /\ r.ok1))
b5(b, r) == b /\ mask_na_orig(r) /\ mask_na_launch(r) /\ mask_na_future(r) /\
  ((Gt(r.L1_l1, 0) /\ Eq(r.L1_o2, 0) /\ starts2_by_last(r)) \/
   (Eq(r.L1_o1, 0) /\ Gt(r.L1_l2, 0) /\ starts1_by_last(r)))

\* b6..b10 (directional & symmetric)
b6(b, r) == b /\ b_second_base(r)
\* a mutant: only the direction side 1 -> side 2
b7_one_direction(b, r) == b /\ mask_na_orig(r) /\ mask_na_launch(r) /\
  (Eq(r.L1_l1, 0) /\ Eq(r.L1_o2, 0) /\ Gt(r.cur_o2, 0))

b7(b, r) == b /\ mask_na_orig(r) /\ mask_na_launch(r) /\
  ((Eq(r.L1_l1, 0) /\ Eq(r.L1_o2, 0) /\ Gt(r.cur_o2, 0)) \/
   (Eq(r.L1_l2, 0) /\ Eq(r.L1_o1, 0) /\ Gt(r.cur_o1, 0)))
b8(b, r) == b /\ mask_na_orig(r) /\ mask_na_launch(r) /\ mask_na_future(r) /\
  ((Eq(r.L1_l1, 0) /\ Eq(r.L1_o2, 0) /\ Gt(r.F3_o2, 0)) \/
   (Eq(r.L1_l2, 0) /\ Eq(r.L1_o1, 0) /\ Gt(r.F3_o1, 0)))
b9(b, r) == b /\ mask_na_orig(r) /\ mask_na_launch(r) /\ mask_na_future(r) /\
  ((Eq(r.L1_l1, 0) /\ Eq(r.L1_o2, 0) /\ (starts2_t_to_t2(r) /\ launched2_by_last(r) /\ r.ok2)) \/
   (Eq(r.L1_l2, 0) /\ Eq(r.L1_o1, 0) /\ (starts1_t_to_t2(r) /\ launched1_by_last(r) /\ r.ok1)))
b10(b, r) == b /\ mask_na_orig(r) /\ mask_na_launch(r) /\ mask_na_future(r) /\
  ((Eq(r.L1_l1, 0) /\ Eq(r.L1_o2, 0) /\ starts2_by_last(r)) \/
   (Eq(r.L1_l2, 0) /\ Eq(r.L1_o1, 0) /\ starts1_by_last(r)))

\* rn*
rn1(b, r) == b /\ mask_na_orig(r) /\ mask_na_launch(r) /\
  ((Gt(r.L1_o1, 0) /\ Eq(r.L1_o2, 0) /\ Eq(r.L1_l1, 0)) \/
   (Eq(r.L1_o1, 0) /\ Gt(r.L1_o2, 0) /\ Eq(r.L1_l2, 0)))
rn2(b, r) == b /\ mask_na_orig(r) /\ mask_na_launch(r) /\
  ((Gt(r.L1_o1, 0) /\ Eq(r.L1_o2, 0) /\ Eq(r.L1_l1, 0) /\ Gt(r.cur_o2, 0)) \/
   (Eq(r.L1_o1, 0) /\ Gt(r.L1_o2, 0) /\ Eq(r.L1_l2, 0) /\ Gt(r.cur_o1, 0)))
rn3(b, r) == b /\ mask_na_orig(r) /\ mask_na_launch(r) /\ mask_na_future(r) /\
  ((Gt(r.L1_o1, 0) /\ Eq(r.L1_o2, 0) /\ Eq(r.L1_l1, 0) /\ Gt(r.F3_o2, 0)) \/
   (Eq(r.L1_o1, 0) /\ Gt(r.L1_o2, 0) /\ Eq(r.L1_l2, 0) /\ Gt(r.F3_o1, 0)))
rn4(b, r) == b /\ mask_na_orig(r) /\ mask_na_launch(r) /\ mask_na_future(r) /\
  ((Gt(r.L1_o1, 0) /\ Eq(r.L1_o2, 0) /\ Eq(r.L1_l1, 0) /\
      (starts2_t_to_t2(r) /\ launched2_by_last(r) /\ r.ok2)) \/
   (Eq(r.L1_o1, 0) /\ Gt(r.L1_o2, 0) /\ Eq(r.L1_l2, 0) /\
      (starts1_t_to_t2(r) /\ launched1_by_last(r) /\ r.ok1)))
\* a mutant: without the condition that the experienced side has not launched
rn5_any_launch(b, r) == b /\ mask_na_orig(r) /\ mask_na_launch(r) /\ mask_na_future(r) /\
  ((Gt(r.L1_o1, 0) /\ Eq(r.L1_o2, 0) /\ Gt(r.LAST_o2, r.L1_o2)) \/
   (Eq(r.L1_o1, 0) /\ Gt(r.L1_o2, 0) /\ Gt(r.LAST_o1, r.L1_o1)))

rn5(b, r) == b /\ mask_na_orig(r) /\ mask_na_launch(r) /\ mask_na_future(r) /\
  ((Gt(r.L1_o1, 0) /\ Eq(r.L1_o2, 0) /\ Eq(r.L1_l1, 0) /\ Gt(r.LAST_o2, r.L1_o2)) \/
   (Eq(r.L1_o1, 0) /\ Gt(r.L1_o2, 0) /\ Eq(r.L1_l2, 0) /\ Gt(r.LAST_o1, r.L1_o1)))

\* mats, on one row: the 25 masks in the order of the returned list
mats_row(b, r) ==
  <<a1(b, r), a2(b, r), a3(b, r), a4(b, r), a5(b, r),
    a6(b, r), a7(b, r), a8(b, r), a9(b, r), a10(b, r),
    b1(b, r), b2(b, r), b3(b, r), b4(b, r), b5(b, r),
    b6(b, r), b7(b, r), b8(b, r), b9(b, r), b10(b, r),
    rn1(b, r), rn2(b, r), rn3(b, r), rn4(b, r), rn5(b, r)>>

NMasks == 25

\* numpy's broadcast of the base mask against arrays of n rows
broadcasts(base_mask, n) == Len(base_mask) = n \/ Len(base_mask) = 1
base_at(base_mask, n, i) == IF Len(base_mask) = n THEN base_mask[i] ELSE base_mask[1]

\* the frame of one compute_bundle_counts call: its base mask, its mats
\* (row i -> the 25 masks on row i) and the list it returns, [int(m.sum()) for m in mats]
bundle_call(rs, base_mask) ==
  LET n    == Len(rs)
      mats == Tup([i \in 1..n |-> mats_row(base_at(base_mask, n, i), rs[i])], n)
  IN  [base_mask |-> base_mask,
       mats      |-> mats,
       counts    |-> Tup([k \in 1..NMasks |-> Cardinality({i \in 1..n : mats[i][k]})], NMasks)]

compute_bundle_counts(rs, base_mask) == bundle_call(rs, base_mask).counts

\* ------------------------------------------------------------------ _counts_shares
Float(n, d) == [n |-> n, d |-> d]      \* the float n/d, d # 0
ZeroDivisionError == [n |-> 0, d |-> 0]
true_divide(c, total) == IF total = 0 THEN ZeroDivisionError ELSE Float(c, total)

\* a mutant: no guard on the total
counts_shares_unguarded(counts, total) ==
  [Count |-> counts, Share |-> [k \in DOMAIN counts |-> true_divide(counts[k], total)]]

\* the (count, share) columns of a row
counts_shares(counts, total) ==
  IF total <= 0
  THEN [Count |-> counts, Share |-> [k \in DOMAIN counts |-> Float(0, 1)]]
  ELSE [Count |-> counts, Share |-> [k \in DOMAIN counts |-> true_divide(counts[k], total)]]

\* a mutant: the total over itself
total_share_ratio(tot) == true_divide(tot, tot)

\* 1.0 if tot else 0.0
total_share(tot) == IF tot # 0 THEN Float(1, 1) ELSE Float(0, 1)

\* ------------------------------------------------------------------ run_entity: one group
\* one scenario block of the master row
master_block(counts, tot) ==
  [Total_Count |-> tot, Total_Share |-> total_share(tot),
   Count |-> counts_shares(counts, tot).Count,
   Share |-> counts_shares(counts, tot).Share]

\* a YoY row: tot = int(msk.sum())
yoy_row(g, counts, msk) ==
  LET tot == SumBool(msk)
  IN  [GroupName |-> g, Total_Count |-> tot, Total_Share |-> total_share(tot),
       Count |-> counts_shares(counts, tot).Count,
       Share |-> counts_shares(counts, tot).Share]

hist_row(g, label, counts, msk) ==
  LET tot_h == SumBool(msk)
  IN  [GroupName |-> g, HistoryBucket |-> label,
       Total_Count |-> tot_h, Total_Share |-> total_share(tot_h),
       Count |-> counts_shares(counts, tot_h).Count,
       Share |-> counts_shares(counts, tot_h).Share]

Min2(a, b) == IF a <= b THEN a ELSE b
batch_at(gs, off) == SubSeq(gs, off + 1, Min2(off + BATCH, Len(gs)))

NoRows == [master |-> <<>>, indirect |-> <<>>, indirect_hist |-> <<>>,
           direct |-> <<>>, direct_hist |-> <<>>, never |-> <<>>]

\* ------------------------------------------------------------------ actions
\* the group lists and batch sizes of a second run_entity call
GroupLists == {<<1, 2>>, <<2, 1>>, <<2>>}
BatchSizes == {1, 20}

NoMasks == [totals_indirect |-> 0]
NoSeries == [groups_index |-> <<>>]
NoFlags == [ok1 |-> <<>>]

\* main -> build_base
BuildBase ==
  /\ pc = "main"
  /\ base_df' = build_base(interlock_file, cro_file)
  /\ pc' = "run_entity"
  /\ UNCHANGED <<interlock_file, cro_file, citeline_file, groups, BATCH, prev_run, masks, s, tmp, cache, gi,
                 arr, calls, rows, files, series, flags>>

\* run_entity, lines 586-604
RunEntityMasks ==
  /\ pc = "run_entity"
  /\ IF groups = <<>>
     THEN pc' = "done" /\ UNCHANGED <<masks, s, rows>>
     ELSE /\ masks' = run_entity_masks(base_df)
          /\ s' = 0
          /\ rows' = NoRows
          /\ pc' = "batches"
  /\ UNCHANGED <<interlock_file, cro_file, citeline_file, groups, BATCH, prev_run, base_df, tmp, cache, gi,
                 arr, calls, files, series, flags>>

\* run_entity, lines 608-612: the batch table; an empty one skips the batch
AttachBatch ==
  /\ pc = "batches"
  /\ s < Len(groups)
  /\ LET t == attach_entity_batch(base_df, citeline_file, cro_file, batch_at(groups, s))
     IN  \/ /\ t = <<>>
            /\ s' = s + BATCH
            /\ UNCHANGED <<pc, tmp>>
         \/ /\ t # <<>>
            /\ tmp' = t
            /\ pc' = "cache"
            /\ UNCHANGED s
  /\ UNCHANGED <<interlock_file, cro_file, citeline_file, groups, BATCH, prev_run, base_df, masks, cache,
                 gi, arr, calls, rows, files, series, flags>>

\* run_entity, lines 615-629
BuildCache ==
  /\ pc = "cache"
  /\ cache' = build_shift_last_cache(tmp, batch_at(groups, s))
  /\ gi' = 1
  /\ pc' = "prepare"
  /\ UNCHANGED <<interlock_file, cro_file, citeline_file, groups, BATCH, prev_run, base_df, masks, s, tmp,
                 arr, calls, rows, files, series, flags>>

\* run_entity, line 632
PrepareArrays ==
  /\ pc = "prepare"
  /\ arr' = prepare_arrays_fast(tmp, pair_groups(tmp), cache, batch_at(groups, s)[gi])
  /\ pc' = "rows"
  /\ UNCHANGED <<interlock_file, cro_file, citeline_file, groups, BATCH, prev_run, base_df, masks, s, tmp,
                 cache, gi, calls, rows, files, series, flags>>

\* run_entity, lines 634-670: the rest of one iteration of `for g in batch`.  The master
\* block takes its base masks from the batch table, the YoY rows take theirs from the
\* base table; a base mask that does not broadcast against the arrays raises, and the
\* run ends there.
ProcessGroup ==
  /\ pc = "rows"
  /\ LET batch == batch_at(groups, s)
         g     == batch[gi]
         c_ind == bundle_call(arr, [i \in DOMAIN arr |-> arr[i].mask_indirect])
         c_dir == bundle_call(arr, [i \in DOMAIN arr |-> arr[i].mask_direct])
         c_non == bundle_call(arr, [i \in DOMAIN arr |-> arr[i].mask_none])
         master_row ==
           [GroupName |-> g,
            Indirect    |-> master_block(c_ind.counts, masks.totals_indirect),
            Direct      |-> master_block(c_dir.counts, masks.totals_direct),
            NoInterlock |-> master_block(c_non.counts, masks.totals_none)]
     IN  IF ~broadcasts(masks.mask_indirect_yoy, Len(arr))
         THEN /\ calls' = <<c_ind, c_dir, c_non>>
              /\ rows' = [rows EXCEPT !.master = Append(@, master_row)]
              /\ pc' = "error"
              /\ UNCHANGED <<s, tmp, cache, gi, arr>>
         ELSE LET c_iy == bundle_call(arr, masks.mask_indirect_yoy)
                  c_in == bundle_call(arr, masks.indirect_no_prior)
                  c_ip == bundle_call(arr, masks.indirect_prior)
                  c_dy == bundle_call(arr, masks.mask_direct_yoy)
                  c_dn == bundle_call(arr, masks.direct_no_prior)
                  c_dp == bundle_call(arr, masks.direct_prior)
                  c_ne == bundle_call(arr, masks.mask_never)
              IN  /\ calls' = <<c_ind, c_dir, c_non, c_iy, c_in, c_ip, c_dy, c_dn, c_dp, c_ne>>
                  /\ rows' =
                       [master |-> Append(rows.master, master_row),
                        indirect |-> Append(rows.indirect,
                           yoy_row(g, c_iy.counts, masks.mask_indirect_yoy)),
                        indirect_hist |-> rows.indirect_hist \o
                           <<hist_row(g, "no_prior_direct", c_in.counts, masks.indirect_no_prior),
                             hist_row(g, "prior_direct", c_ip.counts, masks.indirect_prior)>>,
                        direct |-> Append(rows.direct,
                           yoy_row(g, c_dy.counts, masks.mask_direct_yoy)),
                        direct_hist |-> rows.direct_hist \o
                           <<hist_row(g, "no_prior_direct", c_dn.counts, masks.direct_no_prior),
                             hist_row(g, "prior_direct", c_dp.counts, masks.direct_prior)>>,
                        never |-> Append(rows.never, yoy_row(g, c_ne.counts, masks.mask_never))]
                  /\ IF gi < Len(batch)
                     THEN gi' = gi + 1 /\ pc' = "prepare" /\ UNCHANGED <<s, tmp, cache, arr>>
                     ELSE /\ tmp' = <<>>
                          /\ cache' = <<>>
                          /\ s' = s + BATCH
                          /\ UNCHANGED arr
                          /\ gi' = 0
                          /\ pc' = "batches"
  /\ UNCHANGED <<interlock_file, cro_file, citeline_file, groups, BATCH, prev_run, base_df, masks, files,
                 series, flags>>

\* the to_csv calls of emit_master and of emit_yoy, in the order they are made
master_writes == <<"full_results_with_all_scenarios",
                   "originate_changes_interlock_indirect_with_shares",
                   "originate_changes_interlock_direct_with_shares",
                   "originate_changes_not_interlock_indirect_with_shares">>

yoy_writes == <<"originate_changes_interlock_indirect_with_shares_YoY_events",
                "originate_changes_interlock_indirect_with_shares_by_prior_direct_history",
                "originate_changes_interlock_direct_with_shares_YoY_events",
                "originate_changes_interlock_direct_with_share_by_prior_direct_history",
                "originate_changes_not_interlock_with_shares_YoY_events">>

MasterFiles == Range(master_writes)
YoYFiles == Range(yoy_writes)

\* the files written when the k-th to_csv call of the sequence raises
written_before(writes, k) == {writes[j] : j \in 1..(k - 1)}

\* run_entity, line 672
EmitMaster ==
  /\ pc = "batches"
  /\ s >= Len(groups)
  /\ files' = files \cup MasterFiles
  /\ pc' = "emit_yoy"
  /\ UNCHANGED <<interlock_file, cro_file, citeline_file, groups, BATCH, prev_run, base_df, masks, s, tmp,
                 cache, gi, arr, calls, rows, series, flags>>

\* run_entity, line 673
EmitYoY ==
  /\ pc = "emit_yoy"
  /\ files' = files \cup YoYFiles
  /\ pc' = "done"
  /\ UNCHANGED <<interlock_file, cro_file, citeline_file, groups, BATCH, prev_run, base_df, masks, s, tmp,
                 cache, gi, arr, calls, rows, series, flags>>

\* run_entity, line 672, with a to_csv call of emit_master that raises (the file
\* system refuses the write): the calls before it have written their files
EmitMasterFails ==
  /\ pc = "batches"
  /\ s >= Len(groups)
  /\ \E k \in DOMAIN master_writes : files' = files \cup written_before(master_writes, k)
  /\ pc' = "error"
  /\ UNCHANGED <<interlock_file, cro_file, citeline_file, groups, BATCH, prev_run, base_df, masks, s, tmp,
                 cache, gi, arr, calls, rows, series, flags>>

\* run_entity, line 673, with a to_csv call of emit_yoy that raises
EmitYoYFails ==
  /\ pc = "emit_yoy"
  /\ \E k \in DOMAIN yoy_writes : files' = files \cup written_before(yoy_writes, k)
  /\ pc' = "error"
  /\ UNCHANGED <<interlock_file, cro_file, citeline_file, groups, BATCH, prev_run, base_df, masks, s, tmp,
                 cache, gi, arr, calls, rows, series, flags>>

\* a second call of run_entity on the same base table and files, with the groups in
\* another order or on their own and with another batch size
Rerun ==
  /\ pc = "done"
  /\ prev_run = <<>>
  /\ rows # NoRows
  /\ prev_run' = [groups |-> groups, BATCH |-> BATCH, rows |-> rows]
  /\ \E gs \in GroupLists, b \in BatchSizes :
       /\ <<gs, b>> # <<groups, BATCH>>
       /\ groups' = gs
       /\ BATCH' = b
  /\ pc' = "run_entity"
  /\ UNCHANGED <<interlock_file, cro_file, citeline_file, base_df, masks, s, tmp, cache, gi,
                 arr, calls, rows, files, series, flags>>

\* prepare_arrays_fast, lines 350-354, on its own
ComputeCausalFlags ==
  /\ pc = "causal"
  /\ flags' = compute_causal_flags_for_pairs(series.groups_index,
                                             series.o1, series.l1, series.o2, series.l2)
  /\ pc' = "causal_done"
  /\ UNCHANGED <<interlock_file, cro_file, citeline_file, groups, BATCH, prev_run, base_df, masks, s, tmp,
                 cache, gi, arr, calls, rows, files, series>>

\* ------------------------------------------------------------------ inputs
\* an indicator that is 0 before year k and 1 from year k on
Onset(k) == [y \in 1..NYears |-> IF y >= k THEN 1 ELSE 0]
\* an indicator that is 1 in the odd years (first = 1) or in the even years (first = 0)
Alternating(first) == [y \in 1..NYears |-> IF y % 2 = first THEN 1 ELSE 0]

IndicatorPatterns ==
  {<<Onset(i), Onset(d)>> : i \in {1, 2, NYears + 1}, d \in {1, 2, NYears + 1}}
    \cup {<<Alternating(1), Alternating(0)>>}

\* pair (1, 3) in year 1 first, then pair (1, 2) from the last year back to the first
InterlockFile(p) ==
  <<[BoardName1 |-> 1, BoardName2 |-> 3, year |-> 1,
     interlock_indirect |-> 1, interlock_direct |-> NaN]>>
  \o [k \in 1..NYears |->
        [BoardName1 |-> 1, BoardName2 |-> 2, year |-> NYears + 1 - k,
         interlock_indirect |-> p[1][NYears + 1 - k],
         interlock_direct   |-> p[2][NYears + 1 - k]]]

\* one pair-year, an indirect onset
SingleRowFile ==
  <<[BoardName1 |-> 1, BoardName2 |-> 2, year |-> 1,
     interlock_indirect |-> 1, interlock_direct |-> 0]>>

InterlockFiles == {<<>>, SingleRowFile} \cup {InterlockFile(p) : p \in IndicatorPatterns}

\* a cumulative counter that is 0 before year k and 1 from year k on
Step(k, y) == IF y >= k THEN 1 ELSE 0
\* (first origination year, first launch year) of a firm; NYears + 1 is never
StartYears ==
  {<<1, 1>>, <<2, MaxStart>>, <<MaxStart, 2>>, <<1, NYears + 1>>, <<NYears + 1, NYears + 1>>}

Defects ==
  {<<"none", 0, 0>>}
    \cup {<<kind, c[1], c[2]>> : kind \in {"no_launch", "no_row", "two_rows"},
                                 c \in {<<1, 1>>, <<2, 3>>}}
    \cup {<<"three_rows", 1, 1>>}

FirmRow(f, y, st, d) ==
  [BoardName |-> f, year |-> y,
   added  |-> [g \in {1} |-> Step(st[f][1], y)],
   launch |-> [g \in {1} |-> IF d = <<"no_launch", f, y>> THEN NaN ELSE Step(st[f][2], y)]]

RECURSIVE FirmRows(_, _, _)
FirmRows(k, st, d) ==
  IF k = 0 THEN <<>>
  ELSE LET f == ((k - 1) \div NYears) + 1
           y == ((k - 1) % NYears) + 1
           r == FirmRow(f, y, st, d)
       IN  FirmRows(k - 1, st, d)
             \o (IF d = <<"no_row", f, y>> THEN <<>>
                 ELSE IF d = <<"two_rows", f, y>> THEN <<r, r>>
                 ELSE IF d = <<"three_rows", f, y>> THEN <<r, r, r>> ELSE <<r>>)

\* firms 1 and 2 in every year, and firm 4, which no whitelist holds
CitelineFile(st, d) ==
  FirmRows(2 * NYears, st, d)
    \o <<[BoardName |-> 4, year |-> 1, added |-> [g \in {1} |-> 1], launch |-> [g \in {1} |-> 1]]>>

CitelineFiles ==
  {CitelineFile(st, d) : st \in [{1, 2} -> StartYears], d \in Defects}

Init ==
  /\ pc = "main"
  /\ interlock_file \in InterlockFiles
  /\ cro_file \in Whitelists
  /\ citeline_file \in CitelineFiles
  /\ groups = <<1>>
  /\ BATCH = 20
  /\ prev_run = <<>>
  /\ base_df = <<>>
  /\ masks = NoMasks
  /\ s = 0
  /\ tmp = <<>>
  /\ cache = <<>>
  /\ gi = 0
  /\ arr = <<>>
  /\ calls = <<>>
  /\ rows = NoRows
  /\ files = {}
  /\ series = NoSeries
  /\ flags = NoFlags

Next ==
  \/ BuildBase
  \/ RunEntityMasks
  \/ AttachBatch
  \/ BuildCache
  \/ PrepareArrays
  \/ ProcessGroup
  \/ EmitMaster
  \/ EmitYoY
  \/ EmitMasterFails
  \/ EmitYoYFails

Spec == Init /\ [][Next]_vars

\* build_base and the base-level arrays of run_entity, on every small interlock file
InitBase ==
  /\ pc = "main"
  /\ interlock_file \in SeqsUpTo(InterlockRows, MaxRows)
  /\ cro_file \in Whitelists
  /\ citeline_file = <<>>
  /\ groups = <<1>>
  /\ BATCH = 20
  /\ prev_run = <<>>
  /\ base_df = <<>>
  /\ masks = NoMasks
  /\ s = 0
  /\ tmp = <<>>
  /\ cache = <<>>
  /\ gi = 0
  /\ arr = <<>>
  /\ calls = <<>>
  /\ rows = NoRows
  /\ files = {}
  /\ series = NoSeries
  /\ flags = NoFlags

NextBase == BuildBase \/ RunEntityMasks

SpecBase == InitBase /\ [][NextBase]_vars

\* two groups: firm 1 takes every start pair in each group, firm 2 a fixed one
FirmRow2(f, y, st) ==
  [BoardName |-> f, year |-> y,
   added  |-> [g \in {1, 2} |-> Step(st[g][f][1], y)],
   launch |-> [g \in {1, 2} |-> Step(st[g][f][2], y)]]

CitelineFile2(st) ==
  [k \in 1..(2 * NYears) |-> FirmRow2(((k - 1) \div NYears) + 1, ((k - 1) % NYears) + 1, st)]

CitelineFiles2 ==
  {CitelineFile2(<<<<a, <<2, MaxStart>>>>, <<b, <<MaxStart, 2>>>>>>) :
     a \in StartYears, b \in StartYears}

InterlockFiles2 ==
  {<<>>, InterlockFile(<<Onset(2), Onset(NYears + 1)>>),
   InterlockFile(<<Alternating(1), Alternating(0)>>)}

InitGroups ==
  /\ pc = "main"
  /\ interlock_file \in InterlockFiles2
  /\ cro_file = {1, 2, 3}
  /\ citeline_file \in CitelineFiles2
  /\ groups \in {<<1, 2>>, <<2, 1>>}
  /\ BATCH \in {1, 2}
  /\ prev_run = <<>>
  /\ base_df = <<>>
  /\ masks = NoMasks
  /\ s = 0
  /\ tmp = <<>>
  /\ cache = <<>>
  /\ gi = 0
  /\ arr = <<>>
  /\ calls = <<>>
  /\ rows = NoRows
  /\ files = {}
  /\ series = NoSeries
  /\ flags = NoFlags

NextGroups == Next \/ Rerun

SpecGroups == InitGroups /\ [][NextGroups]_vars

\* the causal evaluator on every small table: rows 1..k are one pair, the rest another
CausalValues == {NaN, 0, 1}
SeriesOf(n, V) == [1..n -> V]

SplitIndex(n, k) ==
  IF k = n THEN [p \in {<<1, 2>>} |-> [i \in 1..n |-> i]]
  ELSE [p \in {<<1, 2>>, <<1, 3>>} |->
          IF p = <<1, 2>> THEN [i \in 1..k |-> i] ELSE [i \in 1..(n - k) |-> k + i]]

InitCausal ==
  /\ pc = "causal"
  /\ \E k \in 1..MaxLen :
       series \in [groups_index : {SplitIndex(MaxLen, k)},
                   o1 : SeriesOf(MaxLen, CausalValues), l1 : SeriesOf(MaxLen, CausalValues),
                   o2 : SeriesOf(MaxLen, {0, 1}), l2 : SeriesOf(MaxLen, {0, 1})]
  /\ flags = NoFlags
  /\ interlock_file = <<>>
  /\ cro_file = {}
  /\ citeline_file = <<>>
  /\ groups = <<1>>
  /\ BATCH = 20
  /\ prev_run = <<>>
  /\ base_df = <<>>
  /\ masks = NoMasks
  /\ s = 0
  /\ tmp = <<>>
  /\ cache = <<>>
  /\ gi = 0
  /\ arr = <<>>
  /\ calls = <<>>
  /\ rows = NoRows
  /\ files = {}

NextCausal == ComputeCausalFlags

SpecCausal == InitCausal /\ [][NextCausal]_vars

\* ------------------------------------------------------------------ claims on the base table
\* number of rows of row i's pair before row i whose (filled) direct indicator is 1
PriorDirectCount(df, i) ==
  Cardinality({j \in 1..(i - 1) : SamePair(df[j], df[i]) /\ df[j].interlock_direct = 1})

OnePerPairYear(df) ==
  \A i, j \in DOMAIN df :
    (SamePair(df[i], df[j]) /\ df[i].year = df[j].year) => i = j

\* C4: every YoY event row lies in exactly one history bucket: in prior_direct iff the
\* pair has a direct interlock in an earlier row (lag-1 cumulative-direct > 0), in
\* no_prior_direct iff it has none; rows that are no event lie in neither bucket, and
\* the two bucket totals add up to the YoY total.
C4_HistoryRouting ==
  pc = "batches" =>
    /\ \A i \in DOMAIN base_df :
         /\ masks.indirect_prior[i]    = (masks.mask_indirect_yoy[i] /\ PriorDirectCount(base_df, i) > 0)
         /\ masks.indirect_no_prior[i] = (masks.mask_indirect_yoy[i] /\ PriorDirectCount(base_df, i) = 0)
         /\ masks.direct_prior[i]      = (masks.mask_direct_yoy[i] /\ PriorDirectCount(base_df, i) > 0)
         /\ masks.direct_no_prior[i]   = (masks.mask_direct_yoy[i] /\ PriorDirectCount(base_df, i) = 0)
         /\ ~(masks.indirect_prior[i] /\ masks.indirect_no_prior[i])
         /\ ~(masks.direct_prior[i] /\ masks.direct_no_prior[i])
    /\ SumBool(masks.indirect_prior) + SumBool(masks.indirect_no_prior)
         = SumBool(masks.mask_indirect_yoy)
    /\ SumBool(masks.direct_prior) + SumBool(masks.direct_no_prior)
         = SumBool(masks.mask_direct_yoy)

\* a pair with a direct interlock in year 1 and an indirect and a direct onset later:
\* both kinds of event are routed to prior_direct, and another event to no_prior_direct
C4_Witness ==
  /\ pc = "batches"
  /\ \E i \in DOMAIN base_df : masks.indirect_prior[i] /\ base_df[i].cum_interlock_direct_prev > 0
  /\ \E i \in DOMAIN base_df : masks.direct_prior[i]
  /\ \E i \in DOMAIN base_df : masks.direct_no_prior[i]

\* C8 (as claimed): with one row per pair-year, at most one row of a pair has
\* Indirect-YoY true, and at most one has Direct-YoY true.
C8_YoYOncePerPair ==
  (pc = "run_entity" /\ OnePerPairYear(base_df)) =>
    \A i, j \in DOMAIN base_df :
      SamePair(base_df[i], base_df[j]) =>
        /\ (base_df[i].mask_indirect_yoy /\ base_df[j].mask_indirect_yoy) => i = j
        /\ (base_df[i].mask_direct_yoy /\ base_df[j].mask_direct_yoy) => i = j

\* C9 (as claimed): on every row at most one of Indirect-YoY, Direct-YoY, Never is true.
C9_AtMostOneScenario ==
  pc = "run_entity" =>
    \A i \in DOMAIN base_df :
      /\ ~(base_df[i].mask_indirect_yoy /\ base_df[i].mask_direct_yoy)
      /\ ~(base_df[i].mask_indirect_yoy /\ base_df[i].mask_never)
      /\ ~(base_df[i].mask_direct_yoy /\ base_df[i].mask_never)

\* C9 (amended): Never excludes Indirect-YoY and Direct-YoY on every row; the two YoY
\* masks are independent of each other.
C9_NeverExcludesYoY ==
  pc = "run_entity" =>
    \A i \in DOMAIN base_df :
      /\ ~(base_df[i].mask_indirect_yoy /\ base_df[i].mask_never)
      /\ ~(base_df[i].mask_direct_yoy /\ base_df[i].mask_never)
      /\ base_df[i].mask_never =>
           (base_df[i].interlock_indirect = 0 /\ base_df[i].interlock_direct = 0)

\* a table with a Never row, a row where both YoY masks are true, and a row where only
\* the direct one is
C9_Witness ==
  /\ pc = "run_entity"
  /\ \E i \in DOMAIN base_df : base_df[i].mask_never
  /\ \E i \in DOMAIN base_df : base_df[i].mask_indirect_yoy /\ base_df[i].mask_direct_yoy
  /\ \E i \in DOMAIN base_df : base_df[i].mask_direct_yoy /\ ~base_df[i].mask_indirect_yoy

\* ------------------------------------------------------------------ claims on the classification
\* the calls of the last group processed, with the arrays they were made on
Classified == calls # <<>> /\ pc \in {"batches", "error", "emit_yoy", "done"}

Pos(x) == x # NaN /\ x > 0
LagOrigObserved(r)   == r.L1_o1 # NaN /\ r.L1_o2 # NaN
LagLaunchObserved(r) == r.L1_l1 # NaN /\ r.L1_l2 # NaN

\* C1 (as claimed): in every call of compute_bundle_counts, each of the 25 counts is at
\* most the number of rows on which the call's base mask M is true.
C1_CountsWithinBase ==
  Classified =>
    \A j \in DOMAIN calls : \A k \in 1..NMasks :
      calls[j].counts[k] <= SumBool(calls[j].base_mask)

\* the share that belongs to a count under a total: count/total, and 0.0 under total 0
ShareOk(count, share, total) ==
  IF total > 0 THEN share.d # 0 /\ share.n * total = count * share.d
  ELSE share = Float(0, 1)

BlockOk(blk) == \A k \in 1..NMasks : ShareOk(blk.Count[k], blk.Share[k], blk.Total_Count)

YoYTables == {"indirect", "direct", "never"}
HistTables == {"indirect_hist", "direct_hist"}

\* C2: in every row of every table, for every mask, the share is count/total when the
\* scenario total is positive and exactly 0.0 (no NaN, no error value) when it is 0.
C2_ShareIsCountOverTotal ==
  /\ \A i \in DOMAIN rows.master :
       BlockOk(rows.master[i].Indirect) /\ BlockOk(rows.master[i].Direct)
         /\ BlockOk(rows.master[i].NoInterlock)
  /\ \A t \in YoYTables \cup HistTables : \A i \in DOMAIN rows[t] : BlockOk(rows[t][i])

\* the files are written, with a row whose total is 0 and a row with a positive total
\* and a share strictly between 0 and 1
C2_Witness ==
  /\ pc = "done"
  /\ \E t \in YoYTables : \E i \in DOMAIN rows[t] : rows[t][i].Total_Count = 0
  /\ \E i \in DOMAIN rows.master : \E k \in 1..NMasks :
       /\ rows.master[i].Indirect.Total_Count > rows.master[i].Indirect.Count[k]
       /\ rows.master[i].Indirect.Count[k] > 0
       /\ rows.master[i].Indirect.Share[k]
            = Float(rows.master[i].Indirect.Count[k], rows.master[i].Indirect.Total_Count)

LagGated == (6..10) \cup (16..20)
LaunchGated == {9} \cup (16..20)

Asymmetric(r) ==
  \/ Pos(r.L1_o1) /\ r.L1_o2 = 0 /\ Pos(r.cur_o2)
  \/ r.L1_o1 = 0 /\ Pos(r.L1_o2) /\ Pos(r.cur_o1)

\* C5: on a base-mask row where one side has lag-1 origination > 0, the other has
\* lag-1 origination 0 and current origination > 0, a.1 and a.2 are true and a.6 is false.
C5_AsymmetricRow ==
  Classified =>
    \A j \in DOMAIN calls : \A i \in DOMAIN arr :
      (base_at(calls[j].base_mask, Len(arr), i) /\ Asymmetric(arr[i])) =>
        (calls[j].mats[i][1] /\ calls[j].mats[i][2] /\ ~calls[j].mats[i][6])

\* such a row under a true base mask of a YoY call: lag-1 origination (1, 0), current
\* origination (1, 1)
C5_Witness ==
  /\ Classified
  /\ Len(calls) > 3
  /\ \E i \in DOMAIN arr :
       /\ base_at(calls[4].base_mask, Len(arr), i)
       /\ Asymmetric(arr[i])
       /\ arr[i].L1_o1 = 1 /\ arr[i].cur_o1 = 1 /\ arr[i].cur_o2 = 1
       /\ calls[4].mats[i][1] /\ calls[4].mats[i][2]

\* neither side originated or launched before, exactly one side originates now
FirstMover(r) ==
  /\ r.L1_o1 = 0 /\ r.L1_o2 = 0 /\ r.L1_l1 = 0 /\ r.L1_l2 = 0
  /\ Pos(r.cur_o1) # Pos(r.cur_o2)

\* C6: on a base-mask row with lag-1 origination 0 and lag-1 launch 0 on both sides and
\* current origination > 0 on exactly one side, b.6 and b.7 are true and a.1 is false.
C6_FirstMoverRow ==
  Classified =>
    \A j \in DOMAIN calls : \A i \in DOMAIN arr :
      (base_at(calls[j].base_mask, Len(arr), i) /\ FirstMover(arr[i])) =>
        (calls[j].mats[i][16] /\ calls[j].mats[i][17] /\ ~calls[j].mats[i][1])

\* such a row under a true base mask of a YoY call: current origination (0, 1)
C6_Witness ==
  /\ Classified
  /\ Len(calls) > 3
  /\ \E i \in DOMAIN arr :
       /\ base_at(calls[4].base_mask, Len(arr), i)
       /\ FirstMover(arr[i])
       /\ arr[i].cur_o1 = 0 /\ arr[i].cur_o2 = 1
       /\ calls[4].mats[i][16] /\ calls[4].mats[i][17]

\* C7: in every YoY and YoY-by-history row the total share is exactly 1.0 when the
\* row's total event count is positive and exactly 0.0 when it is 0.
C7_TotalShare ==
  \A t \in YoYTables \cup HistTables : \A i \in DOMAIN rows[t] :
    rows[t][i].Total_Share
      = (IF rows[t][i].Total_Count > 0 THEN Float(1, 1) ELSE Float(0, 1))

\* a history row with no event, a YoY row with events whose mask counts are all below
\* the total
C7_Witness ==
  /\ pc = "done"
  /\ \E t \in HistTables : \E i \in DOMAIN rows[t] : rows[t][i].Total_Count = 0
  /\ \E t \in YoYTables : \E i \in DOMAIN rows[t] :
       /\ rows[t][i].Total_Count > 0
       /\ \A k \in 1..NMasks : rows[t][i].Count[k] < rows[t][i].Total_Count

\* ------------------------------------------------------------------ claims on the causal evaluator
Zeroed(x) == IF x = NaN THEN 0 ELSE x
\* the running maximum of z at position i, missing values counted as 0
RunMax(z, i) ==
  CHOOSE m \in {Zeroed(z[j]) : j \in 1..i} : \A j \in 1..i : Zeroed(z[j]) <= m
\* the positions at which the running maximum rises
Rises(z) == {i \in 2..Len(z) : RunMax(z, i) > RunMax(z, i - 1)}
FirstRise(z) == CHOOSE i \in Rises(z) : \A j \in Rises(z) : i <= j
Eligible(o, l) ==
  Rises(o) # {} /\ Rises(l) # {} /\ FirstRise(l) >= FirstRise(o)

\* C10: for every pair and each side, the flag is the same on every row of the pair:
\* true iff the running maxima of the side's origination and launch series both rise
\* and the launch series first rises at or after the origination series; a side whose
\* origination series is all zero has its flag false.
C10_CausalEligibility ==
  pc = "causal_done" =>
    \A p \in DOMAIN series.groups_index :
      LET idx == series.groups_index[p]
      IN  \A k \in DOMAIN idx :
            /\ flags.ok1[idx[k]] = Eligible(Take(series.o1, idx), Take(series.l1, idx))
            /\ flags.ok2[idx[k]] = Eligible(Take(series.o2, idx), Take(series.l2, idx))
            /\ (\A m \in DOMAIN idx : series.o1[idx[m]] = 0) => ~flags.ok1[idx[k]]
            /\ (\A m \in DOMAIN idx : series.o2[idx[m]] = 0) => ~flags.ok2[idx[k]]

\* one pair: side 1 is eligible with a missing value in its series, side 2 never
\* originates and is not
C10_Witness ==
  /\ pc = "causal_done"
  /\ \A i \in DOMAIN flags.ok1 : flags.ok1[i] /\ ~flags.ok2[i]
  /\ \E i \in DOMAIN series.o1 : series.o1[i] = NaN
  /\ \A i \in DOMAIN series.o2 : series.o2[i] = 0
  /\ DOMAIN series.groups_index = {<<1, 2>>}

\* ------------------------------------------------------------------ claims on the batch table
CacheBuilt == pc \in {"prepare", "rows"}

\* the value v, if present, is the value of column col in a row of row i's firm (column
\* firm) whose year is earlier (dir = -1) or later (dir = 1) than row i's year
FromFirmYear(i, g, v, firm, col, dir) ==
  v # NaN =>
    \E j \in DOMAIN tmp :
      /\ tmp[j][firm] = tmp[i][firm]
      /\ (IF dir < 0 THEN tmp[j].year < tmp[i].year ELSE tmp[j].year > tmp[i].year)
      /\ tmp[j][col][g] = v

\* C11 (as claimed): in a batch table with one row per pair-year, every non-missing
\* lag-1 value of a side's origination or launch series comes from a row of the same
\* firm with a strictly earlier year, and every non-missing lead value from a row of
\* the same firm with a strictly later year.
C11_ShiftsFollowYears ==
  (CacheBuilt /\ OnePerPairYear(tmp)) =>
    \A i \in DOMAIN tmp : \A g \in DOMAIN cache[i].L1_o1 :
      /\ FromFirmYear(i, g, cache[i].L1_o1[g], "BoardName1", "added_1", -1)
      /\ FromFirmYear(i, g, cache[i].L1_l1[g], "BoardName1", "launch_1", -1)
      /\ FromFirmYear(i, g, cache[i].L1_o2[g], "BoardName2", "added_2", -1)
      /\ FromFirmYear(i, g, cache[i].L1_l2[g], "BoardName2", "launch_2", -1)
      /\ FromFirmYear(i, g, cache[i].F1_o1[g], "BoardName1", "added_1", 1)
      /\ FromFirmYear(i, g, cache[i].F2_o1[g], "BoardName1", "added_1", 1)
      /\ FromFirmYear(i, g, cache[i].F3_o1[g], "BoardName1", "added_1", 1)
      /\ FromFirmYear(i, g, cache[i].F1_o2[g], "BoardName2", "added_2", 1)
      /\ FromFirmYear(i, g, cache[i].F2_o2[g], "BoardName2", "added_2", 1)
      /\ FromFirmYear(i, g, cache[i].F3_o2[g], "BoardName2", "added_2", 1)

Attached == pc \in {"cache", "prepare", "rows"}

\* no row of the firm-year table is for this firm and year
Unmatched(firm, year) ==
  \A k \in DOMAIN citeline_file :
    ~(citeline_file[k].BoardName = firm /\ citeline_file[k].year = year)

\* C12: every row of the base table is in the batch table, and a side whose (firm,
\* year) has no row in the firm-year table has missing values, not zeros, in its
\* group columns.
C12_LeftJoin ==
  Attached =>
    /\ \A i \in DOMAIN base_df : \E j \in DOMAIN tmp :
         /\ tmp[j].BoardName1 = base_df[i].BoardName1
         /\ tmp[j].BoardName2 = base_df[i].BoardName2
         /\ tmp[j].year = base_df[i].year
         /\ tmp[j].mask_indirect_yoy = base_df[i].mask_indirect_yoy
         /\ tmp[j].cum_interlock_direct_prev = base_df[i].cum_interlock_direct_prev
    /\ \A j \in DOMAIN tmp : \A g \in DOMAIN tmp[j].added_1 :
         /\ Unmatched(tmp[j].BoardName1, tmp[j].year) =>
              (tmp[j].added_1[g] = NaN /\ tmp[j].launch_1[g] = NaN)
         /\ Unmatched(tmp[j].BoardName2, tmp[j].year) =>
              (tmp[j].added_2[g] = NaN /\ tmp[j].launch_2[g] = NaN)

\* a batch table as long as the base table, with a row whose side 1 is matched and
\* whose side 2 is not
C12_Witness ==
  /\ Attached
  /\ Len(tmp) = Len(base_df)
  /\ \E j \in DOMAIN tmp :
       /\ Unmatched(tmp[j].BoardName2, tmp[j].year)
       /\ ~Unmatched(tmp[j].BoardName1, tmp[j].year)
       /\ tmp[j].added_1[1] # NaN /\ tmp[j].added_2[1] = NaN

\* ------------------------------------------------------------------ claims on the output files
\* C13 (as claimed): when the processing of the entity has failed, none of its nine
\* report files has been written.
C13_NoFileOnFailure == pc = "error" => files = {}

\* ------------------------------------------------------------------ claims on the batch loop
\* the rows of group g in a row list
RowsOf(rs, g) == LET Is(r) == r.GroupName = g IN SelectSeq(rs, Is)
Tables == {"master", "indirect", "indirect_hist", "direct", "direct_hist", "never"}

\* C14: the rows of a group (totals, the 25 counts and shares) are the same in two
\* run_entity calls on the same inputs, whatever the batch size, the order of the
\* groups and the other groups of the batch.
C14_CountsIndependent ==
  (pc = "done" /\ prev_run # <<>>) =>
    \A g \in Range(groups) : \A t \in Tables :
      RowsOf(rows[t], g) = RowsOf(prev_run.rows[t], g)

\* two finished calls with different batch sizes; group 2 is not first in the earlier
\* call and its counts differ from those of group 1
C14_Witness ==
  /\ pc = "done"
  /\ prev_run # <<>>
  /\ prev_run.BATCH # BATCH
  /\ prev_run.groups = <<1, 2>>
  /\ groups[1] = 2
  /\ RowsOf(rows.master, 2) # <<>>
  /\ RowsOf(prev_run.rows.master, 2)[1].Indirect.Count
       # RowsOf(prev_run.rows.master, 1)[1].Indirect.Count

Buckets == {"no_prior_direct", "prior_direct"}

\* C15 (as claimed): when run_entity has finished, the master table and each YoY table
\* hold exactly one row per group, and each history table exactly one row per group
\* and bucket.
C15_OneRowPerGroup ==
  pc = "done" =>
    /\ \A t \in {"master"} \cup YoYTables :
         /\ Len(rows[t]) = Len(groups)
         /\ \A g \in Range(groups) : Len(RowsOf(rows[t], g)) = 1
    /\ \A t \in HistTables :
         /\ Len(rows[t]) = 2 * Len(groups)
         /\ \A g \in Range(groups) : \A b \in Buckets :
              Cardinality({i \in DOMAIN rows[t] :
                             rows[t][i].GroupName = g /\ rows[t][i].HistoryBucket = b}) = 1

\* ------------------------------------------------------------------ claims on the mask families
\* the base mask of the family of mask k: a.1, a.6, b.1, b.6, rn.1
FamilyBase(k) == ((k - 1) \div 5) * 5 + 1

\* C16: on every row and for every base mask, a.2-a.5 are true only where a.1 is,
\* a.7-a.10 only where a.6 is, b.2-b.5 only where b.1 is, b.7-b.10 only where b.6 is,
\* rn.2-rn.5 only where rn.1 is; each refined count is at most its family's base count.
C16_FamiliesNested ==
  Classified =>
    \A j \in DOMAIN calls : \A k \in 1..NMasks :
      /\ \A i \in DOMAIN arr : calls[j].mats[i][k] => calls[j].mats[i][FamilyBase(k)]
      /\ calls[j].counts[k] <= calls[j].counts[FamilyBase(k)]

\* a call in which a.2 is true on some rows of a.1 but not on all, and rn.5 is true on
\* a row
C16_Witness ==
  /\ Classified
  /\ \E j \in DOMAIN calls :
       /\ calls[j].counts[2] > 0
       /\ calls[j].counts[2] < calls[j].counts[1]
       /\ calls[j].counts[25] > 0

\* ------------------------------------------------------------------ claims on the alignment of the masks
\* C17 (as claimed): for every batch, the batch table has as many rows as the base
\* table, and row i of both is the same (BoardName1, BoardName2, year).
C17_BatchAlignedWithBase ==
  Attached =>
    /\ Len(tmp) = Len(base_df)
    /\ \A i \in DOMAIN tmp :
         i \in DOMAIN base_df =>
           /\ tmp[i].BoardName1 = base_df[i].BoardName1
           /\ tmp[i].BoardName2 = base_df[i].BoardName2
           /\ tmp[i].year = base_df[i].year

\* a master scenario block and a YoY row carry the same totals, counts and shares
SameBlock(block, row) ==
  /\ block.Total_Count = row.Total_Count
  /\ block.Total_Share = row.Total_Share
  /\ block.Count = row.Count
  /\ block.Share = row.Share

\* C18: the master table's scenario masks are the YoY base masks row by row (Indirect =
\* Indirect-YoY, Direct = Direct-YoY, No-Interlock = Never), and for every group that has
\* its YoY rows the totals, the 25 counts and the 25 shares of each master scenario block
\* equal those of the group's row in the corresponding YoY table.
C18_MasterEqualsYoY ==
  /\ \A i \in DOMAIN base_df :
       /\ base_df[i].mask_indirect = base_df[i].mask_indirect_yoy
       /\ base_df[i].mask_direct = base_df[i].mask_direct_yoy
       /\ base_df[i].mask_no_interlock = base_df[i].mask_never
  /\ Len(rows.indirect) = Len(rows.direct) /\ Len(rows.direct) = Len(rows.never)
  /\ Len(rows.indirect) <= Len(rows.master)
  /\ \A k \in DOMAIN rows.indirect :
       /\ rows.master[k].GroupName = rows.indirect[k].GroupName
       /\ rows.master[k].GroupName = rows.direct[k].GroupName
       /\ rows.master[k].GroupName = rows.never[k].GroupName
       /\ SameBlock(rows.master[k].Indirect, rows.indirect[k])
       /\ SameBlock(rows.master[k].Direct, rows.direct[k])
       /\ SameBlock(rows.master[k].NoInterlock, rows.never[k])

\* a finished run whose Indirect block has a positive total and a positive count
C18_Witness ==
  /\ pc = "done"
  /\ \E k \in DOMAIN rows.indirect :
       /\ rows.master[k].Indirect.Total_Count > 0
       /\ \E m \in DOMAIN rows.master[k].Indirect.Count : rows.master[k].Indirect.Count[m] > 0
       /\ rows.master[k].Direct.Total_Count > 0

====
